---------------------------- MODULE Spec2Model ----------------------------
(***************************************************************************)
(* A model of JSON Pro (src/json_editor_pro.py): a multi-tab JSON editor   *)
(* with a tree view, a path-to-position resolver and Format / Minify /     *)
(* Validate / Open / Save commands.                                        *)
(*                                                                         *)
(* Texts are strings over the alphabet                                     *)
(*     { } [ ] : , " . space newline 0..9 a b x                            *)
(* json.loads and json.dumps are modelled on that alphabet exactly as the  *)
(* Python codec behaves on it (objects, arrays, strings, integers and      *)
(* decimal fractions; no escapes, no literals, no signs, no exponents).    *)
(* The strings of a settings file also hold other letters, _ and /.        *)
(***************************************************************************)
EXTENDS Integers, Sequences, FiniteSets, TLC

(***************************************************************************)
(* Strings as character sequences.                                         *)
(***************************************************************************)
QUOTE == "\""
NL == "\n"
Digits == {"0", "1", "2", "3", "4", "5", "6", "7", "8", "9"}
Whitespace == {" ", NL}

Chars(s) == [i \in 1..Len(s) |-> SubSeq(s, i, i)]

RECURSIVE Join(_)
Join(cs) == IF cs = <<>> THEN "" ELSE Head(cs) \o Join(Tail(cs))

\* First index j in i..Len(s) with s[j] \in set, or Len(s)+1.
FirstIn(s, i, set) ==
    LET hits == {j \in i..Len(s) : s[j] \in set}
    IN  IF hits = {} THEN Len(s) + 1
        ELSE CHOOSE j \in hits : \A k \in hits : j <= k

\* First index j in i..Len(s) with s[j] \notin set, or Len(s)+1.
FirstNotIn(s, i, set) ==
    LET hits == {j \in i..Len(s) : s[j] \notin set}
    IN  IF hits = {} THEN Len(s) + 1
        ELSE CHOOSE j \in hits : \A k \in hits : j <= k

\* str.strip(): leading and trailing whitespace removed.
Strip(text) ==
    LET s == Chars(text)
        keep == {j \in 1..Len(s) : s[j] \notin Whitespace}
    IN  IF keep = {} THEN ""
        ELSE LET lo == CHOOSE j \in keep : \A k \in keep : j <= k
                 hi == CHOOSE j \in keep : \A k \in keep : j >= k
             IN  SubSeq(text, lo, hi)

\* int(str) of a digit string, and str(int).
RECURSIVE DigitsToNat(_)
DigitVal(c) == CASE c = "0" -> 0 [] c = "1" -> 1 [] c = "2" -> 2 [] c = "3" -> 3
                 [] c = "4" -> 4 [] c = "5" -> 5 [] c = "6" -> 6 [] c = "7" -> 7
                 [] c = "8" -> 8 [] c = "9" -> 9
DigitsToNat(cs) ==
    IF cs = <<>> THEN 0
    ELSE 10 * DigitsToNat(SubSeq(cs, 1, Len(cs) - 1)) + DigitVal(cs[Len(cs)])

DigitChar(d) == CASE d = 0 -> "0" [] d = 1 -> "1" [] d = 2 -> "2" [] d = 3 -> "3"
                  [] d = 4 -> "4" [] d = 5 -> "5" [] d = 6 -> "6" [] d = 7 -> "7"
                  [] d = 8 -> "8" [] d = 9 -> "9"
RECURSIVE NatToStr(_)
NatToStr(n) == IF n < 10 THEN DigitChar(n)
               ELSE NatToStr(n \div 10) \o DigitChar(n % 10)

(***************************************************************************)
(* JSON values, as json.loads builds them.  A dict keeps its keys in       *)
(* insertion order; every value is a record of the same shape.             *)
(***************************************************************************)
JInt(n) == [t |-> "int", n |-> n, s |-> "", items |-> <<>>]
JFloat(r) == [t |-> "float", n |-> 0, s |-> r, items |-> <<>>]
JStr(str) == [t |-> "str", n |-> 0, s |-> str, items |-> <<>>]
JList(xs) == [t |-> "list", n |-> 0, s |-> "", items |-> xs]
JDict(kvs) == [t |-> "dict", n |-> 0, s |-> "", items |-> kvs]
JNone == [t |-> "none", n |-> 0, s |-> "", items |-> <<>>]
IsContainer(v) == v.t \in {"dict", "list"}

\* d[k] = v on a Python dict: a repeated key keeps its first position and
\* takes the last value.
DictSet(kvs, k, v) ==
    IF \E p \in 1..Len(kvs) : kvs[p].k = k
    THEN [p \in 1..Len(kvs) |-> IF kvs[p].k = k THEN [k |-> k, v |-> v] ELSE kvs[p]]
    ELSE Append(kvs, [k |-> k, v |-> v])

\* repr(float(intpart.frac)): trailing zeros of the fraction dropped, one kept.
FloatRepr(intpart, frac) ==
    LET f == Chars(frac)
        nz == {j \in 1..Len(f) : f[j] # "0"}
        last == IF nz = {} THEN 1 ELSE CHOOSE j \in nz : \A k \in nz : j >= k
    IN  intpart \o "." \o SubSeq(frac, 1, last)

\* The nesting depth past which the scanner raises RecursionError
\* (sys.getrecursionlimit(), scaled to the documents of this model).
RecursionLimit == 4

\* The outcome of a scan: the value and the index after it, or the exception.
ParseFail == [ok |-> FALSE, v |-> JNone, i |-> 0, err |-> "JSONDecodeError"]
ParseDeep == [ok |-> FALSE, v |-> JNone, i |-> 0, err |-> "RecursionError"]
ParseOk(v, i) == [ok |-> TRUE, v |-> v, i |-> i, err |-> ""]

\* json.decoder.py_scanstring from the character after the opening quote:
\* the string ends at the next quote; a control character inside is an error.
ScanString(s, i) ==
    LET j == FirstIn(s, i, {QUOTE})
    IN  IF j > Len(s) \/ (\E k \in i..(j - 1) : s[k] = NL) THEN ParseFail
        ELSE ParseOk(JStr(Join(SubSeq(s, i, j - 1))), j + 1)

\* json.scanner NUMBER_RE: (0|[1-9]\d*)(\.\d+)? at position i.
ScanNumber(s, i) ==
    LET e == IF s[i] = "0" THEN i + 1 ELSE FirstNotIn(s, i, Digits)
        intpart == Join(SubSeq(s, i, e - 1))
        fe == IF e + 1 <= Len(s) /\ s[e] = "." /\ s[e + 1] \in Digits
              THEN FirstNotIn(s, e + 1, Digits) ELSE e
    IN  IF fe > e
        THEN ParseOk(JFloat(FloatRepr(intpart, Join(SubSeq(s, e + 1, fe - 1)))), fe)
        ELSE ParseOk(JInt(DigitsToNat(SubSeq(s, i, e - 1))), e)

RECURSIVE ScanOnce(_, _, _), ScanMembers(_, _, _, _), ScanElements(_, _, _, _)
\* json.scanner.py_make_scanner._scan_once at position i, inside `depth`
\* containers.
ScanOnce(s, i, depth) ==
    IF i > Len(s) THEN ParseFail
    ELSE IF s[i] \in {"{", "["} /\ depth >= RecursionLimit THEN ParseDeep
    ELSE IF s[i] = QUOTE THEN ScanString(s, i + 1)
    ELSE IF s[i] = "{" THEN
        LET j == FirstNotIn(s, i + 1, Whitespace)
        IN  IF j > Len(s) THEN ParseFail
            ELSE IF s[j] = "}" THEN ParseOk(JDict(<<>>), j + 1)
            ELSE ScanMembers(s, j, <<>>, depth + 1)
    ELSE IF s[i] = "[" THEN
        LET j == FirstNotIn(s, i + 1, Whitespace)
        IN  IF j > Len(s) THEN ParseFail
            ELSE IF s[j] = "]" THEN ParseOk(JList(<<>>), j + 1)
            ELSE ScanElements(s, j, <<>>, depth + 1)
    ELSE IF s[i] \in Digits THEN ScanNumber(s, i)
    ELSE ParseFail

\* json.decoder.JSONObject: the members, from the opening quote of a key.
ScanMembers(s, i, acc, depth) ==
    IF i > Len(s) \/ s[i] # QUOTE THEN ParseFail
    ELSE LET key == ScanString(s, i + 1)
         IN  IF ~key.ok THEN ParseFail
             ELSE LET c == FirstNotIn(s, key.i, Whitespace)
                  IN  IF c > Len(s) \/ s[c] # ":" THEN ParseFail
                      ELSE LET val == ScanOnce(s, FirstNotIn(s, c + 1, Whitespace), depth)
                           IN  IF ~val.ok THEN val
                               ELSE LET e == FirstNotIn(s, val.i, Whitespace)
                                        acc2 == DictSet(acc, key.v.s, val.v)
                                    IN  IF e > Len(s) THEN ParseFail
                                        ELSE IF s[e] = "}" THEN ParseOk(JDict(acc2), e + 1)
                                        ELSE IF s[e] = ","
                                             THEN ScanMembers(s, FirstNotIn(s, e + 1, Whitespace), acc2, depth)
                                        ELSE ParseFail

\* json.decoder.JSONArray: the elements, from the first character of one.
ScanElements(s, i, acc, depth) ==
    LET val == ScanOnce(s, i, depth)
    IN  IF ~val.ok THEN val
        ELSE LET e == FirstNotIn(s, val.i, Whitespace)
                 acc2 == Append(acc, val.v)
             IN  IF e > Len(s) THEN ParseFail
                 ELSE IF s[e] = "]" THEN ParseOk(JList(acc2), e + 1)
                 ELSE IF s[e] = ","
                      THEN ScanElements(s, FirstNotIn(s, e + 1, Whitespace), acc2, depth)
                 ELSE ParseFail

\* The outcome of json.loads on the scan r of the characters s.
LoadsResult(s, r) ==
    IF r.ok /\ FirstNotIn(s, r.i, Whitespace) > Len(s)
    THEN [ok |-> TRUE, v |-> r.v, err |-> ""]
    ELSE [ok |-> FALSE, v |-> JNone,
          err |-> IF r.ok THEN "JSONDecodeError" ELSE r.err]

\* json.loads(text): [ok, v, err]; err names the exception raised.
Loads(text) ==
    LoadsResult(Chars(text), ScanOnce(Chars(text), FirstNotIn(Chars(text), 1, Whitespace), 0))

RECURSIVE Spaces(_)
Spaces(n) == IF n = 0 THEN "" ELSE " " \o Spaces(n - 1)

RECURSIVE DumpsAt(_, _, _), DumpItems(_, _, _, _)
\* json.dumps(v, indent=..., ensure_ascii=False) at nesting depth `level`:
\* indent < 0 is the compact form with separators (',', ':').
DumpsAt(v, indent, level) ==
    CASE v.t = "int" -> NatToStr(v.n)
      [] v.t = "float" -> v.s
      [] v.t = "str" -> QUOTE \o v.s \o QUOTE
      [] v.t = "none" -> "null"
      [] v.t = "dict" ->
            IF v.items = <<>> THEN "{}"
            ELSE IF indent < 0 THEN "{" \o DumpItems(v, indent, level + 1, 1) \o "}"
            ELSE "{" \o NL \o Spaces(indent * (level + 1))
                     \o DumpItems(v, indent, level + 1, 1)
                     \o NL \o Spaces(indent * level) \o "}"
      [] v.t = "list" ->
            IF v.items = <<>> THEN "[]"
            ELSE IF indent < 0 THEN "[" \o DumpItems(v, indent, level + 1, 1) \o "]"
            ELSE "[" \o NL \o Spaces(indent * (level + 1))
                     \o DumpItems(v, indent, level + 1, 1)
                     \o NL \o Spaces(indent * level) \o "]"

DumpItems(v, indent, level, p) ==
    LET one == IF v.t = "dict"
               THEN QUOTE \o v.items[p].k \o QUOTE
                    \o (IF indent < 0 THEN ":" ELSE ": ")
                    \o DumpsAt(v.items[p].v, indent, level)
               ELSE DumpsAt(v.items[p], indent, level)
    IN  IF p = Len(v.items) THEN one
        ELSE one \o (IF indent < 0 THEN "," ELSE "," \o NL \o Spaces(indent * level))
                 \o DumpItems(v, indent, level, p + 1)

\* json.dumps(data, indent=2, ensure_ascii=False)
DumpsIndent2(v) == DumpsAt(v, 2, 0)
\* A minifier that drops every space of the serialization, those inside
\* strings too.
DumpsCompact_DropsSpaces(v) ==
    Join(SelectSeq(Chars(DumpsAt(v, -1, 0)), LAMBDA c : c # " "))

\* json.dumps(data, separators=(',', ':'), ensure_ascii=False)
DumpsCompact(v) == DumpsAt(v, -1, 0)

(***************************************************************************)
(* JSONTreeView: the tree is the sequence of inserted items, in insertion  *)
(* order; each item names its parent item (0 for a top-level item).        *)
(***************************************************************************)
MaxValueStr == 50

\* str(value) of a leaf, cut to 50 characters with an ellipsis.
ValueStr(v) ==
    LET str == CASE v.t = "int" -> NatToStr(v.n)
                 [] v.t = "float" -> v.s
                 [] v.t = "str" -> v.s
                 [] OTHER -> "None"
    IN  IF Len(str) > MaxValueStr THEN SubSeq(str, 1, MaxValueStr) \o "..." ELSE str

TreeItem(parent, text, tag, path) ==
    [parent |-> parent, text |-> text, tag |-> tag, path |-> path]

\* new_path = f"{path}.{key}" if path else key
KeyPath(path, key) == IF path # "" THEN path \o "." \o key ELSE key
\* new_path = f"{path}[{i}]", i counted from 0
IndexPath(path, i) == path \o "[" \o NatToStr(i) \o "]"

RECURSIVE AddNode(_, _, _, _, _), AddChild(_, _, _, _, _, _)
\* JSONTreeView._add_node(parent, data, level, path) on the items so far.
AddNode(items, parent, data, level, path) ==
    IF IsContainer(data) THEN AddChild(items, parent, data, level, path, 1)
    ELSE items

\* One turn of the for loop of _add_node, at the p-th key or element of data.
AddChild(items, parent, data, level, path, p) ==
    IF p > Len(data.items) THEN items
    ELSE LET isDict == data.t = "dict"
             value == IF isDict THEN data.items[p].v ELSE data.items[p]
             label == IF isDict THEN data.items[p].k ELSE "[" \o NatToStr(p - 1) \o "]"
             new_path == IF isDict THEN KeyPath(path, data.items[p].k)
                         ELSE IndexPath(path, p - 1)
             leaf == TreeItem(parent, label \o "  :  " \o ValueStr(value),
                              IF level = 0 THEN "value_blue" ELSE "value_green", new_path)
             folder == TreeItem(parent, "folder " \o label, "key", new_path)
             after == IF IsContainer(value)
                      THEN AddNode(Append(items, folder), Len(items) + 1, value,
                                   level + 1, new_path)
                      ELSE Append(items, leaf)
         IN  AddChild(after, parent, data, level, path, p + 1)

\* JSONTreeView.populate(json_data) with json_data not None: the root item
\* "JSON Document" and below it the items of the value.
Populate(data) ==
    IF data.t = "none" THEN <<>>
    ELSE AddNode(<<TreeItem(0, "JSON Document", "", "")>>, 1, data, 0, "")

(***************************************************************************)
(* JSONTab: the path parser and the path-to-position resolver.             *)
(***************************************************************************)
KeyPart(k) == [isKey |-> TRUE, key |-> k, idx |-> 0]
IdxPart(i) == [isKey |-> FALSE, key |-> "", idx |-> i]

\* int(s) succeeds on a digit string, surrounding whitespace allowed.
IntOk(str) ==
    LET c == Chars(Strip(str))
    IN  c # <<>> /\ \A j \in 1..Len(c) : c[j] \in Digits
IntOf(str) == DigitsToNat(Chars(Strip(str)))

RECURSIVE ParsePathFrom(_, _, _, _)
\* The while loop of _parse_path at index i (1-based), with `current` and
\* `parts` as the code holds them; err stands for the ValueError of int().
ParsePathFrom(s, i, current, parts) ==
    IF i > Len(s)
    THEN [err |-> FALSE,
          parts |-> IF current # "" THEN Append(parts, KeyPart(current)) ELSE parts]
    ELSE LET flushed == IF current # "" THEN Append(parts, KeyPart(current)) ELSE parts
         IN  IF s[i] = "." THEN ParsePathFrom(s, i + 1, "", flushed)
             ELSE IF s[i] = "["
             THEN LET j == FirstIn(s, i + 1, {"]"})
                      inner == Join(SubSeq(s, i + 1, j - 1))
                  IN  IF IntOk(inner)
                      THEN ParsePathFrom(s, j + 1, "", Append(flushed, IdxPart(IntOf(inner))))
                      ELSE [err |-> TRUE, parts |-> <<>>]
             ELSE ParsePathFrom(s, i + 1, current \o s[i], parts)

RECURSIVE ParsePathFrom_IndexAsKey(_, _, _, _)
\* The loop of _parse_path without int(): an index is kept as a string.
ParsePathFrom_IndexAsKey(s, i, current, parts) ==
    IF i > Len(s)
    THEN [err |-> FALSE,
          parts |-> IF current # "" THEN Append(parts, KeyPart(current)) ELSE parts]
    ELSE LET flushed == IF current # "" THEN Append(parts, KeyPart(current)) ELSE parts
         IN  IF s[i] = "." THEN ParsePathFrom_IndexAsKey(s, i + 1, "", flushed)
             ELSE IF s[i] = "["
             THEN LET j == FirstIn(s, i + 1, {"]"})
                  IN  ParsePathFrom_IndexAsKey(s, j + 1, "",
                          Append(flushed, KeyPart(Join(SubSeq(s, i + 1, j - 1)))))
             ELSE ParsePathFrom_IndexAsKey(s, i + 1, current \o s[i], parts)

\* _parse_path(path) without int()
ParsePath_IndexAsKey(path) ==
    IF path = "" THEN [err |-> FALSE, parts |-> <<>>]
    ELSE ParsePathFrom_IndexAsKey(Chars(path), 1, "", <<>>)

\* JSONTab._parse_path(path)
ParsePath(path) ==
    IF path = "" THEN [err |-> FALSE, parts |-> <<>>]
    ELSE ParsePathFrom(Chars(path), 1, "", <<>>)

\* content.split('\n'), each line a character sequence.
RECURSIVE SplitLines(_)
SplitLines(s) ==
    LET j == FirstIn(s, 1, {NL})
    IN  IF j > Len(s) THEN <<s>>
        ELSE <<SubSeq(s, 1, j - 1)>> \o SplitLines(SubSeq(s, j + 1, Len(s)))

\* re.finditer(r'"([^"]+)"\s*:', line) from index q: the matches as
\* [key, start] with start the 0-based column of the opening quote.
RECURSIVE KeyMatches(_, _)
KeyMatches(line, q) ==
    IF q > Len(line) THEN <<>>
    ELSE LET r == FirstIn(line, q + 1, {QUOTE})
             c == FirstNotIn(line, r + 1, {" "})
         IN  IF line[q] = QUOTE /\ r <= Len(line) /\ r > q + 1
                /\ c <= Len(line) /\ line[c] = ":"
             THEN <<[key |-> Join(SubSeq(line, q + 1, r - 1)), start |-> q - 1]>>
                  \o KeyMatches(line, c + 1)
             ELSE KeyMatches(line, q + 1)

\* The key_positions list of _find_key_position_by_path: every textual
\* occurrence of "target_key": with its line (from 1) and column (from 0).
RECURSIVE KeyPositions(_, _, _)
KeyPositions(lines, line_idx, target_key) ==
    IF line_idx > Len(lines) THEN <<>>
    ELSE LET ms == KeyMatches(lines[line_idx], 1)
             hit == {m \in 1..Len(ms) : ms[m].key = target_key}
             here == [m \in 1..Len(ms) |-> [key |-> ms[m].key, line |-> line_idx,
                                            col |-> ms[m].start]]
         IN  SelectSeq(here, LAMBDA h : h.key = target_key)
             \o KeyPositions(lines, line_idx + 1, target_key)

NotFound == -1

RECURSIVE Traverse(_, _, _, _, _), TraverseAt(_, _, _, _, _, _)
\* traverse(obj, current_path) of _find_path_occurrence; st carries count[0]
\* and found_index[0] (NotFound for None).
Traverse(obj, current_path, st, target_key, path_parts) ==
    IF st.found # NotFound THEN st
    ELSE IF IsContainer(obj) THEN TraverseAt(obj, current_path, st, target_key, path_parts, 1)
    ELSE st

\* One turn of the for loop of traverse, at the p-th key or element.
TraverseAt(obj, current_path, st, target_key, path_parts, p) ==
    IF p > Len(obj.items) THEN st
    ELSE IF obj.t = "dict"
    THEN LET key == obj.items[p].k
             value == obj.items[p].v
             new_path == Append(current_path, KeyPart(key))
             isTarget == key = target_key /\ new_path = path_parts
             st1 == IF key = target_key /\ ~isTarget
                    THEN [st EXCEPT !.count = @ + 1] ELSE st
             st2 == IF IsContainer(value)
                    THEN Traverse(value, new_path, st1, target_key, path_parts) ELSE st1
         IN  IF isTarget THEN [st EXCEPT !.found = st.count]
             ELSE TraverseAt(obj, current_path, st2, target_key, path_parts, p + 1)
    ELSE LET item == obj.items[p]
             new_path == Append(current_path, IdxPart(p - 1))
             st1 == IF IsContainer(item)
                    THEN Traverse(item, new_path, st, target_key, path_parts) ELSE st
         IN  TraverseAt(obj, current_path, st1, target_key, path_parts, p + 1)

\* found_index[0] if found_index[0] is not None else 0
FoundOrFirst(st) == IF st.found # NotFound THEN st.found ELSE 0

\* The body of _find_path_occurrence on the parsed data and path parts.
OccurrenceOf(data, pp) ==
    IF ~data.ok \/ pp.err \/ pp.parts = <<>> THEN 0
    ELSE IF ~pp.parts[Len(pp.parts)].isKey THEN 0
    ELSE FoundOrFirst(Traverse(data.v, <<>>, [count |-> 0, found |-> NotFound],
                               pp.parts[Len(pp.parts)].key, pp.parts))

\* JSONTab._find_path_occurrence(content, target_path)
FindPathOccurrence(content, target_path) ==
    OccurrenceOf(Loads(content), ParsePath(target_path))

NoSpan == [kind |-> "none", line |-> 0, col |-> 0, endcol |-> 0]
RaisedError == [kind |-> "error", line |-> 0, col |-> 0, endcol |-> 0]

\* The end of _find_key_position_by_path: the span of entry occurrence_index
\* of key_positions ("line.col" to "line.col+len(key)+2"), None past its end.
PositionAt(key_positions, occurrence_index, target_key) ==
    IF occurrence_index < Len(key_positions)
    THEN [kind |-> "span", line |-> key_positions[occurrence_index + 1].line,
          col |-> key_positions[occurrence_index + 1].col,
          endcol |-> key_positions[occurrence_index + 1].col + Len(target_key) + 2]
    ELSE NoSpan

\* The body of _find_key_position_by_path on the parsed path.
PositionOf(content, target_path, pp) ==
    IF pp.err THEN RaisedError
    ELSE IF pp.parts = <<>> THEN NoSpan
    ELSE IF ~pp.parts[Len(pp.parts)].isKey THEN NoSpan
    ELSE PositionAt(KeyPositions(SplitLines(Chars(content)), 1,
                                 pp.parts[Len(pp.parts)].key),
                    FindPathOccurrence(content, target_path),
                    pp.parts[Len(pp.parts)].key)

\* JSONTab._find_key_position_by_path(content, target_path): a span
\* "line.col" .. "line.endcol", None, or the exception _parse_path raises.
FindKeyPositionByPath(content, target_path) ==
    PositionOf(content, target_path, ParsePath(target_path))

(***************************************************************************)
(* The editor: JSONEditorPro with its tabs, the notebook, the tree view,   *)
(* the files on disk and Tk's event queue.                                 *)
(*                                                                         *)
(* Tk queues the virtual events <<Modified>> (text widget) and             *)
(* <<NotebookTabChanged>> (notebook) and the event loop handles them       *)
(* after the handler that caused them has returned.  status_label and its  *)
(* timers are written and never read by the code; they are not part of     *)
(* this state.                                                             *)
(***************************************************************************)
\* The number of tabs ever created: in Spec, and in SpecTabs, where only
\* tabs are created, selected, edited and opened into.
MaxTabs == 2
MaxManyTabs == 3
\* A user command is taken only while fewer than MaxPending queued events wait.
MaxPending == 1
MaxTimers == 2

FileA == "/d1/a.json"
FileB == "/d2/b.json"
FileC == "/d2/c.json"
Files == {FileA, FileB, FileC}
\* Files that open() refuses, for reading and for writing (OSError).
NoAccess == {FileC}
\* The answers of the Save As file dialog.
SaveAsFiles == {FileB, FileC}
Cancelled == ""
HomeFolder == "~"

\* What the user may leave in the text widget after an edit.
EditTexts == {"", "{\"a\":1}", "{\"a\":", "[[[[["}

\* os.path.dirname / os.path.basename
LastSlash(path) ==
    LET c == Chars(path)
        sl == {j \in 1..Len(c) : c[j] = "/"}
    IN  IF sl = {} THEN 0 ELSE CHOOSE j \in sl : \A k \in sl : j >= k
Dirname(path) ==
    LET k == LastSlash(path)
    IN  IF k = 0 THEN "" ELSE IF k = 1 THEN "/" ELSE SubSeq(path, 1, k - 1)
Basename(path) == SubSeq(path, LastSlash(path) + 1, Len(path))

StartsWithStar(name) == Len(name) > 0 /\ SubSeq(name, 1, 1) = "*"

VARIABLES
    tabs,        \* self.tabs: tab_id -> the JSONTab and its name
    tab_counter, \* self.tab_counter
    order,       \* the notebook's tabs, left to right
    current,     \* the notebook's selected tab (0: none)
    tree,        \* the items of tree_view.tree
    disk,        \* the content of each document file
    last_folder, \* self.last_folder
    settings_file, \* 'last_folder' in SETTINGS_FILE ("" while the file is absent)
    dialog,      \* the message box the last command showed, and its answer
    queue,       \* Tk's queue of virtual events not yet handled
    touched,     \* history: the tabs whose text the user has ever edited
    probe,       \* the tree node last clicked and the span highlighted for it
    menus,       \* the posted context menus that offer Close, by their tab_id
    issued,      \* history: every tab_id create_new_tab has handed out
    running,     \* FALSE once root.destroy() has ended the main loop
    boot,        \* the settings file found at start-up and how __init__ ended
    status,      \* status_label's text and the root.after timers pending
    tags         \* the 'key' and 'string' tags of the selected tab's text widget

editor == <<tabs, tab_counter, order, current, tree, disk, last_folder,
            settings_file, dialog, queue, touched>>
\* The parts of the window each followed in a specification of its own; the
\* other specifications leave them as Init sets them.
extras == <<boot, status, tags>>
shell == <<menus, issued, running, extras>>
vars == <<editor, probe, shell>>

NoDialog == [title |-> "", text |-> "", answer |-> ""]
ErrorBox(title, text) == [title |-> title, text |-> text, answer |-> "ok"]
\* An exception no except clause of the handler catches: Tk's
\* report_callback_exception prints the traceback on stderr, no box is shown.
Traceback(err) == [title |-> "", text |-> "Traceback: " \o err, answer |-> ""]
\* try: ... except json.JSONDecodeError: showerror("Invalid JSON", text)
Raised(err, text) ==
    IF err = "JSONDecodeError" THEN ErrorBox("Invalid JSON", text) ELSE Traceback(err)

ModifiedEvent(t) == [type |-> "Modified", tab |-> t]
TabChangedEvent == [type |-> "NotebookTabChanged", tab |-> 0]

\* JSONTab.__init__ and the entry create_new_tab stores in self.tabs.
NewTab(tab_id) ==
    [name |-> "Untitled " \o NatToStr(tab_id),
     title |-> "Untitled " \o NatToStr(tab_id),
     file_path |-> "",
     file_label |-> "Untitled",
     modified |-> FALSE,
     text |-> "",
     edit_modified |-> FALSE]

\* JSONTab.get_content(): the widget's text, stripped.
GetContent(tab) == Strip(tab.text)

\* A change of the widget's text: Tk sets the widget's modified flag and, when
\* the flag was clear, queues <<Modified>>.
WidgetEvents(tab, tab_id, changed) ==
    IF changed /\ ~tab.edit_modified THEN <<ModifiedEvent(tab_id)>> ELSE <<>>

\* JSONTab.set_content(content): delete, insert, highlight, modified = False.
SetContent(tab, content) ==
    [tab EXCEPT !.text = content,
                !.edit_modified = tab.edit_modified \/ tab.text # "" \/ content # "",
                !.modified = FALSE]
SetContentEvents(tab, tab_id, content) ==
    WidgetEvents(tab, tab_id, tab.text # "" \/ content # "")

\* JSONTab.set_file_path(path)
SetFilePath(tab, path) ==
    [tab EXCEPT !.file_path = path,
                !.file_label = IF path # "" THEN Basename(path) ELSE "Untitled"]

\* The tree on_tab_changed leaves for the selected tab.
TreeOfTab(tab) ==
    LET content == GetContent(tab)
        data == Loads(content)
    IN  IF content # "" /\ data.ok THEN Populate(data.v) ELSE <<>>

\* ttk.Notebook: the tab selected after tab t is forgotten (the next one to
\* the right, else the nearest to the left).
Position(seq, t) == CHOOSE p \in 1..Len(seq) : seq[p] = t
Remove(seq, t) == SelectSeq(seq, LAMBDA u : u # t)
NextSelected(seq, t) ==
    LET p == Position(seq, t)
    IN  IF p < Len(seq) THEN seq[p + 1] ELSE IF p > 1 THEN seq[p - 1] ELSE 0

\* No tree node clicked, or the highlight of the last click has expired.
NoProbe == [stage |-> "none", node |-> 0, path |-> "", span |-> NoSpan]

\* The event loop takes the next user command.
Idle == Len(queue) < MaxPending /\ dialog = NoDialog

\* The document files as the session finds them.
Documents == (FileA :> "{\"a\":1}") @@ (FileB :> "{\"a\":") @@ (FileC :> "")

\* The application constructed with no settings file present.
Booted == [stage |-> "up", exists |-> FALSE, text |-> "", settings |-> JDict(<<>>)]

\* status_label as create_widgets makes it: no text, and no timer pending.
NoStatus == [text |-> "", msg |-> 0, timers |-> {}]

Init ==
    /\ tabs = (1 :> NewTab(1))
    /\ tab_counter = 1
    /\ order = <<1>>
    /\ current = 1
    /\ tree = <<>>
    /\ disk = Documents
    /\ last_folder = HomeFolder
    /\ settings_file = ""
    /\ dialog = NoDialog
    /\ queue = <<TabChangedEvent>>
    /\ touched = {}
    /\ probe = NoProbe
    /\ menus = {}
    /\ issued = {1}
    /\ running = TRUE
    /\ boot = Booted
    /\ status = NoStatus
    /\ tags = <<>>

\* self.tab_counter += 1; tab_id = self.tab_counter
NextTabId_FromOpenTabs == Cardinality(DOMAIN tabs) + 1
NextTabId == tab_counter + 1

\* load_settings(): json.load of SETTINGS_FILE when it exists, {} when it
\* does not or when reading or parsing it raises anything.
LoadSettings(exists, text) ==
    IF exists /\ Loads(text).ok THEN Loads(text).v ELSE JDict(<<>>)

\* self.settings.get('last_folder', default) on a dict.
SettingsGet(settings, key, default) ==
    LET hits == {p \in 1..Len(settings.items) : settings.items[p].k = key}
    IN  IF hits = {} THEN default ELSE settings.items[CHOOSE p \in hits : TRUE].v

\* Only a dict has the method get: on a list, a number, or a string
\* self.settings.get raises AttributeError.
HasGet(settings) == settings.t = "dict"

\* What SETTINGS_FILE may hold when the application starts.
SettingsTexts ==
    {"", "{}", "{\"last_folder\":\"/d1\"}", "{\"a\":1}", "{\"last_folder\":",
     "[]", "1", "\"/d1\"", "[[[[["}

\* 'last_folder' as SETTINGS_FILE holds it.
PersistedFolder(exists, text) ==
    LET settings == LoadSettings(exists, text)
    IN  IF settings.t = "dict" /\ SettingsGet(settings, "last_folder", JNone).t = "str"
        THEN SettingsGet(settings, "last_folder", JNone).s ELSE ""

\* The process started, JSONEditorPro() not yet constructed.
InitBoot ==
    /\ boot \in {[stage |-> "start", exists |-> e, text |-> t, settings |-> JDict(<<>>)] :
                    e \in BOOLEAN, t \in SettingsTexts}
    /\ boot.exists \/ boot.text = ""
    /\ tabs = <<>>
    /\ tab_counter = 0
    /\ order = <<>>
    /\ current = 0
    /\ tree = <<>>
    /\ disk = Documents
    /\ last_folder = ""
    /\ settings_file = PersistedFolder(boot.exists, boot.text)
    /\ dialog = NoDialog
    /\ queue = <<>>
    /\ touched = {}
    /\ probe = NoProbe
    /\ menus = {}
    /\ issued = {}
    /\ running = TRUE
    /\ status = NoStatus
    /\ tags = <<>>

\* JSONEditorPro.__init__: the settings are loaded, last_folder is taken from
\* them and create_widgets ends with create_new_tab; an exception raised on
\* the way ends the process before the main loop starts.
Construct ==
    /\ boot.stage = "start"
    /\ LET settings == LoadSettings(boot.exists, boot.text)
       IN  IF ~HasGet(settings)
           THEN /\ boot' = [boot EXCEPT !.stage = "failed", !.settings = settings]
                /\ UNCHANGED <<tabs, tab_counter, order, current, queue, last_folder>>
           ELSE /\ boot' = [boot EXCEPT !.stage = "up", !.settings = settings]
                /\ last_folder' = SettingsGet(settings, "last_folder", JStr(HomeFolder)).s
                /\ tab_counter' = NextTabId
                /\ tabs' = (tab_counter' :> NewTab(tab_counter'))
                /\ order' = <<tab_counter'>>
                /\ current' = tab_counter'
                /\ queue' = <<TabChangedEvent>>
    /\ UNCHANGED <<tree, disk, settings_file, dialog, touched>>

\* JSONEditorPro.create_new_tab, while fewer than limit tabs were created.
CreateNewTabWithin(limit) ==
    /\ Idle
    /\ tab_counter < limit
    /\ tab_counter' = NextTabId
    /\ tabs' = tabs @@ (tab_counter' :> NewTab(tab_counter'))
    /\ order' = Append(order, tab_counter')
    /\ current' = tab_counter'
    /\ queue' = Append(queue, TabChangedEvent)
    /\ dialog' = NoDialog
    /\ UNCHANGED <<tree, disk, last_folder, settings_file, touched>>

\* JSONEditorPro.create_new_tab
CreateNewTab == CreateNewTabWithin(MaxTabs)

\* The user clicks the header of another tab: the notebook selects it.
SelectTab(t) ==
    /\ Idle
    /\ t \in DOMAIN tabs
    /\ t # current
    /\ current' = t
    /\ queue' = Append(queue, TabChangedEvent)
    /\ dialog' = NoDialog
    /\ UNCHANGED <<tabs, tab_counter, order, tree, disk, last_folder,
                   settings_file, touched>>

\* The user edits the text of the selected tab, leaving txt in the widget.
EditText(txt) ==
    /\ Idle
    /\ current \in DOMAIN tabs
    /\ txt # tabs[current].text
    /\ tabs' = [tabs EXCEPT ![current].text = txt, ![current].edit_modified = TRUE]
    /\ queue' = queue \o WidgetEvents(tabs[current], current, TRUE)
    /\ touched' = touched \cup {current}
    /\ dialog' = NoDialog
    /\ UNCHANGED <<tab_counter, order, current, tree, disk, last_folder,
                   settings_file>>

\* JSONTab.on_text_modified with JSONEditorPro.on_tab_modified, for the
\* <<Modified>> event at the head of the queue.
OnTextModified ==
    /\ dialog = NoDialog
    /\ queue # <<>>
    /\ Head(queue).type = "Modified"
    /\ LET t == Head(queue).tab
       IN  IF t \in DOMAIN tabs /\ tabs[t].edit_modified
           THEN /\ tabs' = [tabs EXCEPT
                       ![t].modified = TRUE,
                       ![t].title = IF ~StartsWithStar(tabs[t].name)
                                    THEN "*" \o tabs[t].name ELSE @,
                       ![t].edit_modified = FALSE]
                /\ queue' = Append(Tail(queue), ModifiedEvent(t))
           ELSE /\ tabs' = tabs
                /\ queue' = Tail(queue)
    /\ UNCHANGED <<tab_counter, order, current, tree, disk, last_folder,
                   settings_file, dialog, touched>>

\* on_tab_changed leaving the tree view as it is.
OnTabChanged_NoRebuild ==
    /\ dialog = NoDialog
    /\ queue # <<>>
    /\ Head(queue).type = "NotebookTabChanged"
    /\ queue' = Tail(queue)
    /\ UNCHANGED <<tabs, tab_counter, order, current, tree, disk, last_folder,
                   settings_file, dialog, touched>>

\* JSONEditorPro.on_tab_changed, for the <<NotebookTabChanged>> event at the
\* head of the queue.
OnTabChanged ==
    /\ dialog = NoDialog
    /\ queue # <<>>
    /\ Head(queue).type = "NotebookTabChanged"
    /\ queue' = Tail(queue)
    /\ tree' = IF current \in DOMAIN tabs THEN TreeOfTab(tabs[current]) ELSE tree
    /\ UNCHANGED <<tabs, tab_counter, order, current, disk, last_folder,
                   settings_file, dialog, touched>>

\* open_file reusing the selected tab whenever its text is empty, also when
\* it holds a file.
OpenTargetWithin_IgnoresFilePath(limit) ==
    IF current \in DOMAIN tabs /\ GetContent(tabs[current]) = ""
    THEN current
    ELSE IF tab_counter < limit THEN tab_counter + 1 ELSE 0

\* The tab open_file loads into: the selected tab when it is empty and has
\* no file, else a new one (0 when limit leaves no identifier).
OpenTargetWithin(limit) ==
    IF current \in DOMAIN tabs /\ GetContent(tabs[current]) = ""
       /\ tabs[current].file_path = ""
    THEN current
    ELSE IF tab_counter < limit THEN NextTabId ELSE 0

\* open_file without the validation of the content.
FileJsonOk_Skipped(filename) == TRUE

\* json.loads(content) of open_file: whether the file's content is valid JSON.
FileJsonOk(filename) == Loads(disk[filename]).ok

\* JSONEditorPro.open_file, the file dialog answering filename, while fewer
\* than limit tabs were created.
OpenFileWithin(filename, limit) ==
    /\ Idle
    /\ IF filename = Cancelled
       THEN /\ dialog' = NoDialog
            /\ UNCHANGED <<tabs, tab_counter, order, current, tree, disk,
                           last_folder, settings_file, queue, touched>>
       ELSE /\ last_folder' = Dirname(filename)
            /\ settings_file' = Dirname(filename)
            /\ IF filename \in NoAccess
               THEN /\ dialog' = ErrorBox("Error", "Error opening file")
                    /\ UNCHANGED <<tabs, tab_counter, order, current, tree, disk,
                                   queue, touched>>
               ELSE IF ~FileJsonOk(filename)
               THEN /\ dialog' = IF Loads(disk[filename]).err = "JSONDecodeError"
                                 THEN ErrorBox("Invalid JSON", "Error parsing JSON")
                                 ELSE ErrorBox("Error", "Error opening file")
                    /\ UNCHANGED <<tabs, tab_counter, order, current, tree, disk,
                                   queue, touched>>
               ELSE LET content == disk[filename]
                        target == OpenTargetWithin(limit)
                        created == target \notin DOMAIN tabs
                        before == IF created THEN NewTab(target) ELSE tabs[target]
                        loaded == [SetFilePath(SetContent(before, content), filename)
                                      EXCEPT !.modified = FALSE,
                                             !.name = Basename(filename),
                                             !.title = Basename(filename)]
                    IN  /\ target # 0
                        /\ tabs' = IF created THEN tabs @@ (target :> loaded)
                                   ELSE [tabs EXCEPT ![target] = loaded]
                        /\ tab_counter' = IF created THEN target ELSE tab_counter
                        /\ order' = IF created THEN Append(order, target) ELSE order
                        /\ current' = target
                        /\ queue' = queue
                                    \o (IF created THEN <<TabChangedEvent>> ELSE <<>>)
                                    \o SetContentEvents(before, target, content)
                        /\ tree' = TreeOfTab(loaded)
                        /\ dialog' = NoDialog
                        /\ UNCHANGED <<disk, touched>>

\* JSONEditorPro.open_file
OpenFile(filename) == OpenFileWithin(filename, MaxTabs)

\* save_file writing json.dumps(json.loads(content), indent=2).
WrittenText_Reserialized(content) == DumpsIndent2(Loads(content).v)

\* f.write(content) of save_file: the text written for the validated content.
WrittenText(content) == content

\* JSONEditorPro.save_file once the tab has a file path; tab is the selected
\* tab as save_file finds it.
SaveToPath(tab) ==
    LET content == GetContent(tab)
    IN  IF ~Loads(content).ok
        THEN /\ tabs' = [tabs EXCEPT ![current] = tab]
             /\ dialog' = IF Loads(content).err = "JSONDecodeError"
                           THEN ErrorBox("Invalid JSON", "Cannot save invalid JSON")
                           ELSE ErrorBox("Save Error", Loads(content).err)
             /\ UNCHANGED <<disk, last_folder, settings_file>>
        ELSE IF tab.file_path \in NoAccess
        THEN /\ tabs' = [tabs EXCEPT ![current] = tab]
             /\ dialog' = ErrorBox("Save Error", "OSError")
             /\ UNCHANGED <<disk, last_folder, settings_file>>
        ELSE /\ disk' = [disk EXCEPT ![tab.file_path] = WrittenText(content)]
             /\ last_folder' = Dirname(tab.file_path)
             /\ settings_file' = Dirname(tab.file_path)
             /\ tabs' = [tabs EXCEPT ![current] =
                            [tab EXCEPT !.modified = FALSE, !.title = tab.name]]
             /\ dialog' = NoDialog

\* JSONEditorPro.save_file; for a tab without a file path it runs
\* save_file_as, whose file dialog answers filename.
SaveFile(filename) ==
    /\ Idle
    /\ current \in DOMAIN tabs
    /\ IF tabs[current].file_path # ""
       THEN filename = Cancelled /\ SaveToPath(tabs[current])
       ELSE IF filename = Cancelled
       THEN /\ dialog' = NoDialog
            /\ UNCHANGED <<tabs, disk, last_folder, settings_file>>
       ELSE SaveToPath(SetFilePath(tabs[current], filename))
    /\ UNCHANGED <<tab_counter, order, current, tree, queue, touched>>

\* JSONEditorPro.format_json
FormatJson ==
    /\ Idle
    /\ current \in DOMAIN tabs
    /\ LET tab == tabs[current]
           data == Loads(GetContent(tab))
           formatted == DumpsIndent2(data.v)
           after == SetContent(tab, formatted)
       IN  IF ~data.ok
           THEN /\ dialog' = Raised(data.err, "Cannot format invalid JSON")
                /\ UNCHANGED <<tabs, tree, queue>>
           ELSE /\ tabs' = [tabs EXCEPT ![current] = after]
                /\ queue' = queue \o SetContentEvents(tab, current, formatted)
                /\ tree' = TreeOfTab(after)
                /\ dialog' = NoDialog
    /\ UNCHANGED <<tab_counter, order, current, disk, last_folder,
                   settings_file, touched>>

\* JSONEditorPro.minify_json
MinifyJson ==
    /\ Idle
    /\ current \in DOMAIN tabs
    /\ LET tab == tabs[current]
           data == Loads(GetContent(tab))
           minified == DumpsCompact(data.v)
           after == SetContent(tab, minified)
       IN  IF ~data.ok
           THEN /\ dialog' = Raised(data.err, "Cannot minify invalid JSON")
                /\ UNCHANGED <<tabs, tree, queue>>
           ELSE /\ tabs' = [tabs EXCEPT ![current] = after]
                /\ queue' = queue \o SetContentEvents(tab, current, minified)
                /\ tree' = TreeOfTab(after)
                /\ dialog' = NoDialog
    /\ UNCHANGED <<tab_counter, order, current, disk, last_folder,
                   settings_file, touched>>

\* JSONEditorPro.validate_json
ValidateJson ==
    /\ Idle
    /\ current \in DOMAIN tabs
    /\ dialog' = IF Loads(GetContent(tabs[current])).ok THEN NoDialog
                 ELSE Raised(Loads(GetContent(tabs[current])).err, "JSON validation failed")
    /\ UNCHANGED <<tabs, tab_counter, order, current, tree, disk, last_folder,
                   settings_file, queue, touched>>

\* JSONEditorPro.refresh_tree
RefreshTree ==
    /\ Idle
    /\ current \in DOMAIN tabs
    /\ LET content == GetContent(tabs[current])
           data == Loads(content)
       IN  IF content = ""
           THEN /\ tree' = <<>>
                /\ dialog' = NoDialog
           ELSE IF data.ok
           THEN /\ tree' = Populate(data.v)
                /\ dialog' = NoDialog
           ELSE /\ dialog' = Raised(data.err, "Cannot refresh tree with invalid JSON")
                /\ UNCHANGED tree
    /\ UNCHANGED <<tabs, tab_counter, order, current, disk, last_folder,
                   settings_file, queue, touched>>

\* del self.tabs[tab_id]
Without(f, t) == [u \in DOMAIN f \ {t} |-> f[u]]

ClosePrompt(name, answer) ==
    [title |-> "Close Tab", text |-> "Close '" \o name \o "'?", answer |-> answer]

\* close_tab going on whatever the answer to the prompt.
Declined_Ignored(tab, response) == FALSE

\* close_tab: the modified tab's prompt was answered no.
Declined(tab, response) == tab.modified /\ response = "no"

\* JSONEditorPro.close_tab(tab_id) for an open tab; response is the answer
\* to the prompt a modified tab raises.
CloseOpenTab(tab_id, response) ==
    /\ IF tabs[tab_id].modified
       THEN response \in {"yes", "no"}
            /\ dialog' = ClosePrompt(tabs[tab_id].name, response)
       ELSE response = "" /\ dialog' = NoDialog
    /\ IF Declined(tabs[tab_id], response)
       THEN UNCHANGED <<tabs, order, current, queue>>
       ELSE /\ tabs' = Without(tabs, tab_id)
            /\ order' = Remove(order, tab_id)
            /\ current' = IF tab_id = current THEN NextSelected(order, tab_id)
                          ELSE current
            /\ queue' = IF tab_id = current THEN Append(queue, TabChangedEvent)
                        ELSE queue
    /\ UNCHANGED <<tab_counter, tree, disk, last_folder, settings_file, touched>>

\* JSONEditorPro.close_tab(tab_id), reached from the context menu of
\* on_tab_right_click, which offers Close while more than one tab is open:
\* the menu is posted and Close chosen at once.
CloseTab(tab_id, response) ==
    /\ Idle
    /\ Cardinality(DOMAIN tabs) > 1
    /\ tab_id \in DOMAIN tabs
    /\ CloseOpenTab(tab_id, response)

\* JSONEditorPro.on_tab_right_click on the header of tab_id: a new menu is
\* built, with Close when more than one tab is open, and posted.  menu.post
\* returns once the menu is unposted on Aqua and Windows and at once on X11,
\* where the menu stays posted until one of its entries is chosen.
OnTabRightClick(tab_id) ==
    /\ Idle
    /\ tab_id \in DOMAIN tabs
    /\ menus' = IF Cardinality(DOMAIN tabs) > 1 THEN menus \cup {tab_id} ELSE menus
    /\ dialog' = NoDialog
    /\ UNCHANGED <<tabs, tab_counter, order, current, tree, disk, last_folder,
                   settings_file, queue, touched>>

\* The user chooses Close in the posted menu of tab_id: the menu is unposted
\* and its command runs close_tab(tab_id), which returns at once when the
\* tab is no longer open.
MenuClose(tab_id, response) ==
    /\ Idle
    /\ tab_id \in menus
    /\ menus' = menus \ {tab_id}
    /\ IF tab_id \in DOMAIN tabs
       THEN CloseOpenTab(tab_id, response)
       ELSE /\ response = ""
            /\ dialog' = NoDialog
            /\ UNCHANGED <<tabs, tab_counter, order, current, tree, disk,
                           last_folder, settings_file, queue, touched>>

\* The user dismisses the message box (it is modal, so nothing else is
\* handled while it is up) or the traceback has been read.
Dismiss ==
    /\ dialog # NoDialog
    /\ dialog' = NoDialog
    /\ UNCHANGED <<tabs, tab_counter, order, current, tree, disk, last_folder,
                   settings_file, queue, touched>>

\* ', '.join(names)
RECURSIVE JoinNames(_)
JoinNames(names) ==
    IF names = <<>> THEN ""
    ELSE IF Len(names) = 1 THEN names[1]
    ELSE names[1] \o ", " \o JoinNames(Tail(names))

\* The keys of self.tabs in the order a loop over self.tabs.items() visits
\* them: the order of insertion, which is the order of the identifiers.
RECURSIVE TabIdsFrom(_)
TabIdsFrom(ids) ==
    IF ids = {} THEN <<>>
    ELSE LET first == CHOOSE t \in ids : \A u \in ids : t <= u
         IN  <<first>> \o TabIdsFrom(ids \ {first})

\* on_closing collecting the selected tab only.
Unsaved_SelectedOnly ==
    IF current \in DOMAIN tabs /\ tabs[current].modified
    THEN <<tabs[current].name>> ELSE <<>>

\* on_closing: the names of the tabs whose modified flag is set.
Unsaved ==
    LET ids == SelectSeq(TabIdsFrom(DOMAIN tabs), LAMBDA t : tabs[t].modified)
    IN  [p \in 1..Len(ids) |-> tabs[ids[p]].name]

UnsavedPrompt(names, answer) ==
    [title |-> "Unsaved Changes",
     text |-> "Save changes before closing? Unsaved tabs: " \o JoinNames(names),
     answer |-> answer]

\* JSONEditorPro.on_closing, the WM_DELETE_WINDOW handler; response is the
\* answer to the prompt raised when some tab is modified.  The yes branch
\* loops over the tabs and does nothing.
OnClosing(response) ==
    /\ Idle
    /\ running
    /\ IF Unsaved # <<>>
       THEN /\ response \in {"yes", "no", "cancel"}
            /\ dialog' = UnsavedPrompt(Unsaved, response)
            /\ running' = (response = "cancel")
       ELSE /\ response = ""
            /\ dialog' = NoDialog
            /\ running' = FALSE
    /\ UNCHANGED <<tabs, tab_counter, order, current, tree, disk, last_folder,
                   settings_file, queue, touched>>

OpenStep == \E f \in Files \cup {Cancelled} : OpenFile(f)
SaveStep == \E f \in SaveAsFiles \cup {Cancelled} : SaveFile(f)

Next ==
    \/ Dismiss /\ UNCHANGED <<probe, shell>>
    \/ CreateNewTab /\ UNCHANGED <<probe, shell>>
    \/ (\E t \in 1..MaxTabs : SelectTab(t)) /\ UNCHANGED <<probe, shell>>
    \/ (\E txt \in EditTexts : EditText(txt)) /\ UNCHANGED <<probe, shell>>
    \/ OnTextModified /\ UNCHANGED <<probe, shell>>
    \/ OnTabChanged /\ UNCHANGED <<probe, shell>>
    \/ OpenStep /\ UNCHANGED <<probe, shell>>
    \/ SaveStep /\ UNCHANGED <<probe, shell>>
    \/ FormatJson /\ UNCHANGED <<probe, shell>>
    \/ MinifyJson /\ UNCHANGED <<probe, shell>>
    \/ ValidateJson /\ UNCHANGED <<probe, shell>>
    \/ RefreshTree /\ UNCHANGED <<probe, shell>>
    \/ (\E t \in 1..MaxTabs, r \in {"", "yes", "no"} : CloseTab(t, r)) /\ UNCHANGED <<probe, shell>>

Spec == Init /\ [][Next]_vars

(***************************************************************************)
(* Clicking a tree node: on_tree_click, on_key_clicked and                 *)
(* find_and_highlight_key.                                                 *)
(***************************************************************************)
\* The try block of find_and_highlight_key on the stripped content: the
\* span it tags 'highlight', NoSpan when it returns early, finds no position
\* or the exception handler swallows an error.
HighlightOf(content, json_path, data, pp, position) ==
    IF json_path = "" \/ content = "" THEN NoSpan
    ELSE IF ~data.ok THEN NoSpan
    ELSE IF pp.err \/ pp.parts = <<>> THEN NoSpan
    ELSE IF position.kind = "span" THEN position
    ELSE NoSpan

\* JSONTab.find_and_highlight_key(json_path)
FindAndHighlightKey(tab, json_path) ==
    HighlightOf(GetContent(tab), json_path, Loads(GetContent(tab)),
                ParsePath(json_path),
                FindKeyPositionByPath(GetContent(tab), json_path))

\* JSONTreeView.on_tree_click on the i-th item of the tree, with
\* JSONEditorPro.on_key_clicked as the callback.
ClickNode(i) ==
    /\ Idle
    /\ i \in 1..Len(tree)
    /\ tree[i].path # ""
    /\ current \in DOMAIN tabs
    /\ probe' = [stage |-> "located", node |-> i, path |-> tree[i].path,
                 span |-> FindAndHighlightKey(tabs[current], tree[i].path)]
    /\ UNCHANGED editor

\* The documents typed when the tree and the resolver are exercised.
ResolverTexts ==
    {"{\"a\":1}",
     "{\"a\":{\"x\":1},\"b\":{\"x\":2}}",
     "{\"x\"\n:1}",
     "{\"a\":{\"x\":1},\"a.x\":2}",
     "{\"a\":[1]}",
     "{\"a\":{\"0\":1}}",
     "[{\"x\":1},{\"x\":2}]",
     "{\n  \"a\": {\n    \"x\": 1\n  },\n  \"x\": \"a\"\n}",
     "{\"b\":\"x\",\"x\":[[\"b\"]]}",
     "{\"a\":"}

\* The editor with one tab, documents typed into it, the tree refreshed and
\* tree nodes clicked; the highlight of a click has expired (3 s) before the
\* next command.
NextResolver ==
    \/ (\E txt \in ResolverTexts : EditText(txt)) /\ probe' = NoProbe /\ UNCHANGED shell
    \/ OnTextModified /\ UNCHANGED <<probe, shell>>
    \/ OnTabChanged /\ UNCHANGED <<probe, shell>>
    \/ RefreshTree /\ probe' = NoProbe /\ UNCHANGED shell
    \/ Dismiss /\ UNCHANGED <<probe, shell>>
    \/ (\E i \in 1..Len(tree) : ClickNode(i)) /\ UNCHANGED shell

SpecResolver == Init /\ [][NextResolver]_vars

\* What the user may leave in the text widget in SpecTabs.
TabTexts == {"", "{\"a\":1}"}

\* The editor with up to MaxManyTabs tabs: tabs are created, selected and
\* edited, and files are opened.
NextTabs ==
    \/ CreateNewTabWithin(MaxManyTabs) /\ UNCHANGED <<probe, shell>>
    \/ (\E t \in 1..MaxManyTabs : SelectTab(t)) /\ UNCHANGED <<probe, shell>>
    \/ (\E txt \in TabTexts : EditText(txt)) /\ UNCHANGED <<probe, shell>>
    \/ OnTextModified /\ UNCHANGED <<probe, shell>>
    \/ OnTabChanged /\ UNCHANGED <<probe, shell>>
    \/ (\E f \in Files \cup {Cancelled} : OpenFileWithin(f, MaxManyTabs)) /\ UNCHANGED <<probe, shell>>
    \/ Dismiss /\ UNCHANGED <<probe, shell>>

SpecTabs == Init /\ [][NextTabs]_vars

\* The identifiers handed out so far, after a step.
Issue == issued' = issued \cup DOMAIN tabs'

\* The editor with up to MaxManyTabs tabs ever created: tabs are created,
\* selected, edited, opened into and closed from the context menus posted on
\* their headers.
NextMenu ==
    \/ CreateNewTabWithin(MaxManyTabs) /\ Issue /\ UNCHANGED <<probe, menus, running, extras>>
    \/ (\E t \in 1..MaxManyTabs : SelectTab(t)) /\ UNCHANGED <<probe, shell>>
    \/ (\E txt \in TabTexts : EditText(txt)) /\ UNCHANGED <<probe, shell>>
    \/ OnTextModified /\ UNCHANGED <<probe, shell>>
    \/ OnTabChanged /\ UNCHANGED <<probe, shell>>
    \/ (\E f \in {FileA, Cancelled} : OpenFileWithin(f, MaxManyTabs))
           /\ Issue /\ UNCHANGED <<probe, menus, running, extras>>
    \/ Dismiss /\ UNCHANGED <<probe, shell>>
    \/ (\E t \in 1..MaxManyTabs : OnTabRightClick(t)) /\ UNCHANGED <<probe, issued, running, extras>>
    \/ (\E t \in 1..MaxManyTabs, r \in {"", "yes", "no"} : MenuClose(t, r))
           /\ UNCHANGED <<probe, issued, running, extras>>

SpecMenu == Init /\ [][NextMenu]_vars

\* The editor until its window is closed: nothing is handled once
\* root.destroy() has ended the main loop.
NextWindow ==
    \/ running /\ CreateNewTab /\ UNCHANGED <<probe, shell>>
    \/ running /\ (\E t \in 1..MaxTabs : SelectTab(t)) /\ UNCHANGED <<probe, shell>>
    \/ running /\ (\E txt \in TabTexts : EditText(txt)) /\ UNCHANGED <<probe, shell>>
    \/ running /\ OnTextModified /\ UNCHANGED <<probe, shell>>
    \/ running /\ OnTabChanged /\ UNCHANGED <<probe, shell>>
    \/ running /\ SaveStep /\ UNCHANGED <<probe, shell>>
    \/ running /\ Dismiss /\ UNCHANGED <<probe, shell>>
    \/ (\E r \in {"", "yes", "no", "cancel"} : OnClosing(r))
           /\ UNCHANGED <<probe, menus, issued, extras>>

SpecWindow == Init /\ [][NextWindow]_vars

\* What the user may leave in the text widget when Save is exercised.
SaveTexts == {"", "{\"a\":1}", " { \"a\":1 }\n", "{\"a\":"}

\* The editor with documents typed into its tabs and saved.
NextSave ==
    \/ CreateNewTab /\ UNCHANGED <<probe, shell>>
    \/ (\E t \in 1..MaxTabs : SelectTab(t)) /\ UNCHANGED <<probe, shell>>
    \/ (\E txt \in SaveTexts : EditText(txt)) /\ UNCHANGED <<probe, shell>>
    \/ OnTextModified /\ UNCHANGED <<probe, shell>>
    \/ OnTabChanged /\ UNCHANGED <<probe, shell>>
    \/ SaveStep /\ UNCHANGED <<probe, shell>>
    \/ Dismiss /\ UNCHANGED <<probe, shell>>

SpecSave == Init /\ [][NextSave]_vars

\* The application from the start of the process: it is constructed, and
\* once the main loop runs tabs are created, selected, edited and opened into.
Up == boot.stage = "up"
NextBoot ==
    \/ Construct /\ UNCHANGED <<probe, menus, issued, running, status, tags>>
    \/ Up /\ CreateNewTab /\ UNCHANGED <<probe, shell>>
    \/ Up /\ (\E t \in 1..MaxTabs : SelectTab(t)) /\ UNCHANGED <<probe, shell>>
    \/ Up /\ (\E txt \in TabTexts : EditText(txt)) /\ UNCHANGED <<probe, shell>>
    \/ Up /\ OnTextModified /\ UNCHANGED <<probe, shell>>
    \/ Up /\ OnTabChanged /\ UNCHANGED <<probe, shell>>
    \/ Up /\ OpenStep /\ UNCHANGED <<probe, shell>>
    \/ Up /\ Dismiss /\ UNCHANGED <<probe, shell>>

SpecBoot == InitBoot /\ [][NextBoot]_vars

(***************************************************************************)
(* JSONTab.highlight_syntax: the pass over the quoted spans.               *)
(***************************************************************************)
\* self.text.get(end_pos + 1c, end_pos + 2c): the one character after the
\* closing quote, '' past the end of the text.
CharAfter(cs, end_pos) == IF end_pos + 1 <= Len(cs) THEN cs[end_pos + 1] ELSE ""

\* char_after.strip().startswith(':')
IsKey(cs, end_pos) ==
    LET stripped == Strip(CharAfter(cs, end_pos))
    IN  Len(stripped) > 0 /\ SubSeq(stripped, 1, 1) = ":"

\* tag_add('key' or 'string', pos, end_pos + 1c)
StringTag(cs, pos, end_pos) ==
    [tag |-> IF IsKey(cs, end_pos) THEN "key" ELSE "string",
     first |-> pos, last |-> end_pos]

\* The while loop over the quotes from start_idx: the next quote opens a
\* span, the quote after it closes it, and the search goes on after that.
RECURSIVE StringPass(_, _)
StringSpans(cs, pos, end_pos) ==
    IF pos > Len(cs) \/ end_pos > Len(cs) THEN <<>>
    ELSE <<StringTag(cs, pos, end_pos)>> \o StringPass(cs, end_pos + 1)
StringPass(cs, start_idx) ==
    StringSpans(cs, FirstIn(cs, start_idx, {QUOTE}),
                FirstIn(cs, FirstIn(cs, start_idx, {QUOTE}) + 1, {QUOTE}))

\* The 'key' and 'string' tags highlight_syntax leaves on the text.
HighlightSyntax(text) == StringPass(Chars(text), 1)

\* What the user may leave in the text widget when the highlighter is
\* exercised.
HighlightTexts ==
    {"", "{\"a\":1}", "{\"a\" : 1}", "{\"a\":\"x\"}", "[\"a\",\"b\"]",
     "{\"a\"\n:1}", "{\"a\": \"b:x\"}", "{\"a", "{\"a\":{\"b\":\"x\"}}"}

\* The tags after a step that has run highlight_syntax on the selected tab.
Rehighlight == tags' = HighlightSyntax(tabs'[current].text)

\* The editor with one tab whose text is typed (each key release runs
\* highlight_syntax), formatted and minified (set_content runs it).
NextHighlight ==
    \/ (\E txt \in HighlightTexts : EditText(txt)) /\ Rehighlight
           /\ UNCHANGED <<probe, menus, issued, running, boot, status>>
    \/ OnTextModified /\ UNCHANGED <<probe, shell>>
    \/ OnTabChanged /\ UNCHANGED <<probe, shell>>
    \/ FormatJson /\ Rehighlight /\ UNCHANGED <<probe, menus, issued, running, boot, status>>
    \/ MinifyJson /\ Rehighlight /\ UNCHANGED <<probe, menus, issued, running, boot, status>>
    \/ Dismiss /\ UNCHANGED <<probe, shell>>

SpecHighlight == Init /\ [][NextHighlight]_vars

(***************************************************************************)
(* The status label and its root.after timers.  Time is counted in units   *)
(* of 1000 ms; a command takes no time.                                    *)
(***************************************************************************)
\* The number a new message is known by: the least not borne by the message
\* shown or by a pending timer.
NewMsg ==
    LET used == {status.msg} \cup {tm.msg : tm \in status.timers}
    IN  CHOOSE m \in 1..(MaxTimers + 2) : m \notin used /\ \A k \in 1..(m - 1) : k \in used

\* status_label.config(text=text) followed by
\* root.after(delay, lambda: status_label.config(text="")).
ShowStatus(text, delay) ==
    status' = [text |-> text, msg |-> NewMsg,
               timers |-> status.timers \cup {[msg |-> NewMsg, left |-> delay]}]

\* status_label.config(text=text) with no timer set.
ShowStatusOnly(text) == status' = [status EXCEPT !.text = text, !.msg = NewMsg]

\* format_json: 'Formatted' for 2000 ms once the buffer is replaced.
FormatStatus ==
    IF Loads(GetContent(tabs[current])).ok THEN ShowStatus("Formatted", 2)
    ELSE UNCHANGED status

\* validate_json: 'Valid JSON' for 3000 ms, 'Invalid JSON' with no timer
\* after the error box of a JSONDecodeError.
ValidateStatus ==
    IF Loads(GetContent(tabs[current])).ok THEN ShowStatus("Valid JSON", 3)
    ELSE IF Loads(GetContent(tabs[current])).err = "JSONDecodeError"
    THEN ShowStatusOnly("Invalid JSON")
    ELSE UNCHANGED status

\* 1000 ms pass: every pending timer is 1000 ms nearer, and the callback of
\* each timer that is due runs status_label.config(text="").
Tick ==
    /\ status.timers # {}
    /\ status' =
          LET due == {tm \in status.timers : tm.left = 1}
          IN  [text |-> IF due # {} THEN "" ELSE status.text,
               msg |-> IF due # {} THEN 0 ELSE status.msg,
               timers |-> {[tm EXCEPT !.left = @ - 1] : tm \in status.timers \ due}]
    /\ UNCHANGED editor

\* No more than MaxTimers timers are left pending.
TimerFree == Cardinality(status.timers) < MaxTimers

\* The editor with one tab whose text is typed, validated and formatted,
\* and the status label these commands write.
NextStatus ==
    \/ (\E txt \in EditTexts : EditText(txt)) /\ UNCHANGED <<probe, shell>>
    \/ OnTextModified /\ UNCHANGED <<probe, shell>>
    \/ OnTabChanged /\ UNCHANGED <<probe, shell>>
    \/ TimerFree /\ FormatJson /\ FormatStatus
           /\ UNCHANGED <<probe, menus, issued, running, boot, tags>>
    \/ TimerFree /\ ValidateJson /\ ValidateStatus
           /\ UNCHANGED <<probe, menus, issued, running, boot, tags>>
    \/ Dismiss /\ UNCHANGED <<probe, shell>>
    \/ Tick /\ UNCHANGED <<probe, menus, issued, running, boot, tags>>

SpecStatus == Init /\ [][NextStatus]_vars

\* The documents typed when Format and Minify are exercised.
CodecTexts ==
    {"1", "10", "1.50", "0.5", "\"a\"", "\"\"", "[]", "{}", "[1,2]", "[ 1 , 2 ]",
     "{\"a\":1}", "{\"a\": 1}", " {\"a\":1}\n",
     "{\"a\":{\"b\":[1,{\"x\":\"a\"}]}}",
     "{\"a\":1,\"a\":2}", "{\"a\":1,\"b\":2,\"a\":3}",
     "[[],{}]", "{\"a\":[]}", "{\n  \"a\": 1\n}", "[1.0,2.50]",
     "{\"a b\":\"x \"}", "[\"a\",\"b\"]", "{\"x\":{\"x\":{\"x\":1}}}",
     "{\"a\":", "[1,]", "{a:1}", "01", "\"a\nb\""}

\* The editor with one tab, documents typed into it, formatted and minified.
NextCodec ==
    \/ (\E txt \in CodecTexts : EditText(txt)) /\ UNCHANGED <<probe, shell>>
    \/ OnTextModified /\ UNCHANGED <<probe, shell>>
    \/ OnTabChanged /\ UNCHANGED <<probe, shell>>
    \/ FormatJson /\ UNCHANGED <<probe, shell>>
    \/ MinifyJson /\ UNCHANGED <<probe, shell>>
    \/ Dismiss /\ UNCHANGED <<probe, shell>>

SpecCodec == Init /\ [][NextCodec]_vars

(***************************************************************************)
(* The claims about the editor, checked under Spec.                        *)
(***************************************************************************)
Quiescent == queue = <<>>
OpenTabs == DOMAIN tabs

\* C1 (as claimed): the only steps that set a tab's modified flag back to
\* false are a successful Save and a fresh load by Open; in particular Format
\* and Minify never clear it.
C1_OnlySaveAndOpenClearModified ==
    [][\A t \in OpenTabs :
          (t \in DOMAIN tabs' /\ tabs[t].modified /\ ~tabs'[t].modified)
              => (OpenStep \/ SaveStep)]_vars

\* The tree the tree view would show if it followed the text: the tree of the
\* parse of the stripped text, nothing when it is empty or does not parse.
ExpectedTree(text) ==
    IF Loads(Strip(text)).ok THEN Populate(Loads(Strip(text)).v) ELSE <<>>

\* C2 (as claimed): once the queued events are handled, the tree view shows
\* the tree of the parse of the active tab's current text, and is empty when
\* that text does not parse.
C2_TreeFollowsText ==
    (Quiescent /\ current \in OpenTabs) => tree = ExpectedTree(tabs[current].text)

TabChangeHandled ==
    /\ queue # <<>> /\ Head(queue).type = "NotebookTabChanged"
    /\ queue' = Tail(queue)
ParsesNow == current \in OpenTabs /\ Loads(GetContent(tabs[current])).ok
RebuildStep ==
    \/ TabChangeHandled
    \/ (\E f \in Files : OpenFile(f)) /\ dialog' = NoDialog
    \/ (FormatJson \/ MinifyJson) /\ ParsesNow
    \/ RefreshTree /\ (ParsesNow \/ GetContent(tabs[current]) = "")

\* C2 (amended): the tree view is rebuilt only when a tab change is handled
\* and by a successful Open, Format, Minify or Refresh tree; each of those
\* leaves the tree of the parse of the active tab's text (empty when that text
\* is empty or does not parse), the tree never changes to anything else, and
\* an edit or a failing Refresh tree leaves the tree view as it was.
C2_TreeRebuiltOnlyOnRebuild ==
    [][/\ RebuildStep => tree' = ExpectedTree(tabs'[current'].text)
       /\ (tree' # tree) => (RebuildStep /\ tree' = ExpectedTree(tabs'[current'].text))
       /\ ((\E txt \in EditTexts : EditText(txt)) \/ (RefreshTree /\ dialog' # NoDialog))
              => tree' = tree]_vars

\* C2 witness: after an edit was handled the tree still shows the parse of the
\* earlier text.
C2_StaleTreeAfterEdit ==
    /\ Quiescent /\ current \in touched /\ current \in OpenTabs
    /\ tree # <<>>
    /\ tree # ExpectedTree(tabs[current].text)
InvalidNow == current \in OpenTabs /\ ~Loads(GetContent(tabs[current])).ok
ReportsError == dialog'.title \in {"Invalid JSON", "Save Error"} /\ dialog'.answer = "ok"
NothingWritten ==
    /\ DOMAIN tabs' = OpenTabs
    /\ \A t \in OpenTabs : tabs'[t].text = tabs[t].text
    /\ disk' = disk /\ settings_file' = settings_file

\* C3 (as claimed): on a buffer that is not valid JSON, each of Format,
\* Minify, Validate and Save shows an error and leaves the buffer and every
\* file unchanged.
C3_InvalidBufferRejected ==
    [][(InvalidNow /\ (FormatJson \/ MinifyJson \/ ValidateJson \/ SaveStep))
          => (ReportsError /\ NothingWritten)]_vars

\* C4: Open of a file that cannot be read or whose content is not valid JSON
\* shows an error and changes no tab: none is created or reused, no buffer,
\* file association, name or modified flag changes.
C4_OpenRejectedChangesNoTab ==
    [][\A f \in Files :
          (OpenFile(f) /\ (f \in NoAccess \/ ~Loads(disk[f]).ok))
              => /\ dialog'.title \in {"Invalid JSON", "Error"}
                 /\ dialog'.answer = "ok"
                 /\ tabs' = tabs /\ tab_counter' = tab_counter
                 /\ order' = order /\ current' = current
                 /\ tree' = tree /\ queue' = queue /\ disk' = disk]_vars

\* C4 witness: Open of a file with invalid JSON was refused while a tab with
\* edited text is open.
C4_OpenRefused ==
    /\ dialog.text = "Error parsing JSON"
    /\ touched # {}

(***************************************************************************)
(* The claims about Open, checked under SpecTabs.                          *)
(***************************************************************************)
Reusable ==
    /\ current \in OpenTabs
    /\ GetContent(tabs[current]) = ""
    /\ tabs[current].file_path = ""
Fresh(t) == tabs[t].text = "" /\ tabs[t].file_path = "" /\ t \notin touched
OpenLoads(f) == OpenFileWithin(f, MaxManyTabs) /\ dialog' = NoDialog

\* C9 (as claimed): Open loads into an existing tab only if that tab is
\* still empty, untitled and untouched; if such a tab exists it is reused,
\* otherwise a new tab is created.
C9_ReusesOnlyUntouchedTab ==
    [][\A f \in Files : OpenLoads(f) =>
          /\ \A t \in OpenTabs : tabs'[t] # tabs[t] => Fresh(t)
          /\ (\E t \in OpenTabs : Fresh(t)) => DOMAIN tabs' = OpenTabs
          /\ (~\E t \in OpenTabs : Fresh(t)) => DOMAIN tabs' # OpenTabs]_vars

\* C9 (amended): Open loads into the selected tab exactly when its stripped
\* text is empty and it has no file path, whether or not it was edited before;
\* otherwise, whatever the other tabs hold, it creates a new tab; no other
\* tab is changed.
C9_ReusesSelectedEmptyTab ==
    [][\A f \in Files : OpenLoads(f) =>
          /\ Reusable =>
               /\ DOMAIN tabs' = OpenTabs /\ current' = current
               /\ tabs'[current].text = disk[f]
               /\ tabs'[current].file_path = f
               /\ \A t \in OpenTabs \ {current} : tabs'[t] = tabs[t]
          /\ ~Reusable =>
               /\ DOMAIN tabs' = OpenTabs \cup {tab_counter + 1}
               /\ current' = tab_counter + 1
               /\ tabs'[current'].text = disk[f]
               /\ tabs'[current'].file_path = f
               /\ \A t \in OpenTabs : tabs'[t] = tabs[t]]_vars

\* C9 witness: Open has created tab 3 for the file while tab 1 is still
\* empty, untitled and never edited, and tab 2, selected before, was edited.
C9_NewTabBesideFreshTab ==
    /\ tab_counter = 3 /\ current = 3
    /\ Fresh(1) /\ 2 \in touched
    /\ tabs[3].file_path = FileA /\ tabs[3].text = disk[FileA]
    /\ dialog = NoDialog /\ last_folder = Dirname(FileA)

\* C20: a tab loaded by Open and never edited by the user is not modified
\* once every queued event has been handled.
C20_LoadedTabStaysUnmodified ==
    \A t \in OpenTabs :
        Quiescent /\ tabs[t].file_path # "" /\ t \notin touched
            => ~tabs[t].modified

(***************************************************************************)
(* The claims about the tabs' identifiers and the active tab, checked      *)
(* under SpecMenu.                                                         *)
(***************************************************************************)
\* C11: each newly created tab receives an identifier strictly greater than
\* every identifier issued before it, and the open tabs' identifiers, the
\* keys of self.tabs and the entries of the notebook, are distinct.
C11_TabIdsNeverReused ==
    /\ [](\A p, q \in 1..Len(order) : order[p] = order[q] => p = q)
    /\ [](DOMAIN tabs = {order[p] : p \in 1..Len(order)})
    /\ [][/\ Len(order') > Len(order) =>
               \A u \in issued : order'[Len(order')] > u
          /\ \A t \in DOMAIN tabs' \ DOMAIN tabs : \A u \in issued : t > u]_vars

\* C11 witness: tab 1 was closed and the tab created afterwards is tab 3.
C11_NewTabAfterClose ==
    /\ DOMAIN tabs = {2, 3}
    /\ issued = {1, 2, 3}
    /\ order = <<2, 3>>

\* C12: the set of open tabs is never empty and the notebook's selected tab
\* is one of them.
C12_OneActiveTab == DOMAIN tabs # {} /\ current \in DOMAIN tabs

(***************************************************************************)
(* The claim about closing the window, checked under SpecWindow.           *)
(***************************************************************************)
ModifiedTabs == {t \in OpenTabs : tabs[t].modified}
Prompted == dialog'.title = "Unsaved Changes"
NothingElseChanged ==
    UNCHANGED <<tabs, tab_counter, order, current, tree, disk, last_folder,
                settings_file, queue, touched>>

\* C13: closing the window with no tab modified closes it without a prompt;
\* with some tab modified one prompt names every modified tab and no other,
\* cancel leaves the application running and yes or no closes the window;
\* in every case no tab and no file changes.
C13_CloseWindowPromptsOnce ==
    [][\A r \in {"", "yes", "no", "cancel"} : OnClosing(r) =>
          /\ NothingElseChanged
          /\ ModifiedTabs = {} => dialog' = NoDialog /\ ~running'
          /\ ModifiedTabs # {} =>
               /\ Prompted
               /\ dialog'.text = "Save changes before closing? Unsaved tabs: "
                     \o JoinNames([p \in 1..Len(TabIdsFrom(ModifiedTabs)) |->
                                      tabs[TabIdsFrom(ModifiedTabs)[p]].name])
               /\ dialog'.answer = r
               /\ r = "cancel" => running'
               /\ r \in {"yes", "no"} => ~running']_vars

\* C13 witness: the window was closed on the answer yes to the prompt naming
\* two modified tabs, neither of which was written.
C13_ClosedOnYes ==
    /\ ~running
    /\ dialog = UnsavedPrompt(<<"Untitled 1", "Untitled 2">>, "yes")
    /\ \A t \in {1, 2} : t \in OpenTabs /\ tabs[t].modified /\ tabs[t].file_path = ""

(***************************************************************************)
(* The claims about Open and Save, checked under Spec.                     *)
(***************************************************************************)
OpenSucceeds(f) == f # Cancelled /\ dialog' = NoDialog
Saved == dialog' = NoDialog /\ tabs'[current].file_path # ""

\* C14: the persisted last-used folder is rewritten by every successful Open
\* and every successful Save, and is not changed by an Open or a Save that
\* fails or is cancelled.
C14_SettingsOnlyOnSuccess ==
    [][/\ \A f \in Files \cup {Cancelled} : OpenFile(f) =>
             IF OpenSucceeds(f) THEN settings_file' = Dirname(f)
             ELSE settings_file' = settings_file
       /\ \A f \in SaveAsFiles \cup {Cancelled} : SaveFile(f) =>
             IF Saved THEN settings_file' = Dirname(tabs'[current].file_path)
             ELSE settings_file' = settings_file]_vars

\* C19: Save As on a tab whose buffer is not valid JSON, with a path picked,
\* shows an error dialog and leaves the tab as it was: the same file
\* association and label, buffer and modified flag; no file is written.
C19_SaveAsInvalidChangesNothing ==
    [][\A f \in SaveAsFiles :
          SaveFile(f) /\ tabs[current].file_path = "" /\ InvalidNow =>
             /\ ReportsError
             /\ tabs'[current] = tabs[current]
             /\ disk' = disk]_vars

(***************************************************************************)
(* The claim about loading the settings, checked under SpecBoot.           *)
(***************************************************************************)
\* The settings file holds a JSON object.
SettingsObject ==
    boot.exists /\ Loads(boot.text).ok /\ Loads(boot.text).v.t = "dict"

\* C15: start-up never fails on the settings: when the settings file is
\* absent or holds anything but a JSON object, the settings are {} and the
\* last-used folder is the default.
C15_SettingsNeverFailStartup ==
    [][Construct =>
          /\ boot'.stage = "up"
          /\ ~SettingsObject =>
               boot'.settings = JDict(<<>>) /\ last_folder' = HomeFolder]_vars

(***************************************************************************)
(* The claim about the highlighter, checked under SpecHighlight.           *)
(***************************************************************************)
\* The character after position last that is not whitespace, "" if none.
NextNonSpace(cs, last) ==
    LET j == FirstNotIn(cs, last + 1, Whitespace)
    IN  IF j <= Len(cs) THEN cs[j] ELSE ""

\* C17: every quoted span the string pass has tagged is tagged 'key' exactly
\* when the next non-space character after its closing quote is ':', and
\* 'string' otherwise.
C17_KeyTagIffColonFollows ==
    \A p \in 1..Len(tags) :
        tags[p].tag = IF NextNonSpace(Chars(tabs[current].text), tags[p].last) = ":"
                      THEN "key" ELSE "string"

(***************************************************************************)
(* The claim about the status messages, checked under SpecStatus.          *)
(***************************************************************************)
\* C18: a status message is cleared only by its own timer: whenever the
\* label's text is cleared, the timer set with the message shown is the one
\* that is due; the pending timer of an overwritten message clears nothing.
C18_ClearedOnlyByOwnTimer ==
    [][/\ status.text # ""
       /\ \E tm \in status.timers : tm.msg = status.msg
       /\ status'.text = ""
       => [msg |-> status.msg, left |-> 1] \in status.timers]_vars

(***************************************************************************)
(* The claim about the text Save writes, checked under SpecSave.           *)
(***************************************************************************)
SavedPath == tabs'[current].file_path
Reserialized(content) ==
    {DumpsIndent2(Loads(content).v), DumpsCompact(Loads(content).v)}

\* C16 (as claimed): a successful Save writes the codec's re-serialization
\* of the parsed buffer value, as Format or Minify produce it.
C16_SaveReserializes ==
    [][\A f \in SaveAsFiles \cup {Cancelled} : SaveFile(f) /\ Saved =>
          disk'[SavedPath] \in Reserialized(GetContent(tabs[current]))]_vars

\* C16 (amended): a successful Save writes the buffer text itself, stripped
\* of leading and trailing whitespace, once that text parses as JSON, and
\* leaves the buffer as it is.
C16_SaveWritesBufferText ==
    [][\A f \in SaveAsFiles \cup {Cancelled} : SaveFile(f) /\ Saved =>
          /\ Loads(GetContent(tabs[current])).ok
          /\ disk'[SavedPath] = Strip(tabs[current].text)
          /\ tabs'[current].text = tabs[current].text
          /\ \A g \in Files \ {SavedPath} : disk'[g] = disk[g]]_vars

\* C16 witness: the file of the selected tab was saved from a buffer that
\* differs from both serializations of its value, and holds that text.
C16_SavedUnformatted ==
    /\ current \in OpenTabs
    /\ tabs[current].file_path = FileB
    /\ ~tabs[current].modified
    /\ tabs[current].text = " { \"a\":1 }\n"
    /\ disk[FileB] = "{ \"a\":1 }"
    /\ disk[FileB] \notin Reserialized(disk[FileB])
    /\ dialog = NoDialog

(***************************************************************************)
(* The claim about Close tab, checked under Spec.                          *)
(***************************************************************************)
\* C10: Close tab on an unmodified tab closes it without a prompt; on a
\* modified tab it asks first, a no keeps the tab and everything else as it
\* was, a yes closes it; no other tab changes.
C10_ClosePromptsWhenModified ==
    [][\A t \in OpenTabs, r \in {"", "yes", "no"} : CloseTab(t, r) =>
          /\ ~tabs[t].modified =>
               dialog' = NoDialog /\ DOMAIN tabs' = OpenTabs \ {t}
          /\ tabs[t].modified =>
               /\ dialog'.title = "Close Tab" /\ dialog'.answer = r
               /\ r = "no" => tabs' = tabs /\ order' = order /\ current' = current
               /\ r = "yes" => DOMAIN tabs' = OpenTabs \ {t}
          /\ \A u \in DOMAIN tabs' : tabs'[u] = tabs[u]
          /\ disk' = disk]_vars

\* C10 witness: the prompt was answered no and the modified tab is still open.
C10_CloseDeclined ==
    /\ dialog.title = "Close Tab" /\ dialog.answer = "no"
    /\ Cardinality(OpenTabs) = 2
    /\ \E t \in OpenTabs : tabs[t].modified

(***************************************************************************)
(* The claims about Format and Minify, checked under SpecCodec.            *)
(***************************************************************************)
Buffer == GetContent(tabs[current])
Formatted(content) == DumpsIndent2(Loads(content).v)
Minified(content) == DumpsCompact(Loads(content).v)

\* C5: on a buffer that is valid JSON, Format and Minify each leave a buffer
\* that parses to the value the buffer parsed to before; minifying the result
\* gives what minifying the original gives (Minify after Format is Minify
\* alone); and each is idempotent: applied to its own result it gives that
\* result again.
C5_FormatMinifyRoundTrip ==
    [][((FormatJson \/ MinifyJson) /\ Loads(Buffer).ok) =>
          /\ Loads(Buffer').ok
          /\ Loads(Buffer').v = Loads(Buffer).v
          /\ Minified(Buffer') = Minified(Buffer)
          /\ FormatJson => (tabs'[current].text = Formatted(Buffer)
                            /\ Formatted(Buffer') = tabs'[current].text)
          /\ MinifyJson => (tabs'[current].text = Minified(Buffer)
                            /\ Minified(Buffer') = tabs'[current].text)]_vars

\* C5 witness: a document with nesting, spaces inside strings and repeated
\* keys has been formatted: the buffer is the indented form and differs from
\* its minified form.
C5_FormattedNested ==
    /\ Loads(Buffer).ok
    /\ Loads(Buffer).v.t = "dict" /\ Len(Loads(Buffer).v.items) = 2
    /\ tabs[current].text = Formatted(Buffer)
    /\ tabs[current].text # Minified(Buffer)
    /\ ~tabs[current].modified

(***************************************************************************)
(* The claims about the tree builder and the resolver, checked under       *)
(* SpecResolver.                                                           *)
(***************************************************************************)
RECURSIVE NavPaths(_, _, _)
\* The navigation sequences (keys and indices) from the root of v to every
\* key and every index below it, depth first in declaration order, from the
\* p-th child of v on.
NavPaths(v, prefix, p) ==
    IF ~IsContainer(v) \/ p > Len(v.items) THEN <<>>
    ELSE LET here == Append(prefix, IF v.t = "dict" THEN KeyPart(v.items[p].k)
                                    ELSE IdxPart(p - 1))
             child == IF v.t = "dict" THEN v.items[p].v ELSE v.items[p]
         IN  <<here>> \o NavPaths(child, here, 1) \o NavPaths(v, prefix, p + 1)

RECURSIVE KeyTokens(_, _, _, _)
\* The key tokens of a valid document in textual order: every quoted string
\* whose next non-blank character is a colon, with its line (from 1) and the
\* column (from 0) of its opening quote; bol is the index the line starts at.
KeyTokens(s, i, line, bol) ==
    IF i > Len(s) THEN <<>>
    ELSE IF s[i] = NL THEN KeyTokens(s, i + 1, line + 1, i + 1)
    ELSE IF s[i] # QUOTE THEN KeyTokens(s, i + 1, line, bol)
    ELSE LET r == FirstIn(s, i + 1, {QUOTE})
             c == FirstNotIn(s, r + 1, Whitespace)
             tok == [key |-> Join(SubSeq(s, i + 1, r - 1)), line |-> line,
                     col |-> i - bol]
         IN  (IF c <= Len(s) /\ s[c] = ":" THEN <<tok>> ELSE <<>>)
             \o KeyTokens(s, r + 1, line, bol)

Last(seq) == seq[Len(seq)]

\* The span of the key token of the node-th tree item of the document text:
\* the (N+1)-th token of that key name, N the number of same-named keys met
\* before the node in depth-first declaration order.
NodeKeySpan(text, node) ==
    LET navs == NavPaths(Loads(text).v, <<>>, 1)
        key == Last(navs[node - 1])
        before == Cardinality({j \in 1..(node - 2) : Last(navs[j]) = key})
        toks == SelectSeq(KeyTokens(Chars(text), 1, 1, 1), LAMBDA t : t.key = key.key)
    IN  IF before < Len(toks)
        THEN [kind |-> "span", line |-> toks[before + 1].line,
              col |-> toks[before + 1].col,
              endcol |-> toks[before + 1].col + Len(key.key) + 2]
        ELSE NoSpan

TreeIsFresh ==
    /\ Loads(Buffer).ok
    /\ tree # <<>>
    /\ tree = Populate(Loads(Buffer).v)

\* C6 (as claimed): for a valid document and a node of the tree built from
\* it whose path ends in an object key, the resolver returns the span, quote
\* to quote, of the key token of that node: the occurrence of the key name
\* that follows as many occurrences as same-named keys precede the node in
\* depth-first declaration order.
C6_LocateFindsNodeKey ==
    (probe.stage = "located" /\ TreeIsFresh
     /\ Last(NavPaths(Loads(Buffer).v, <<>>, 1)[probe.node - 1]).isKey)
        => probe.span = NodeKeySpan(Buffer, probe.node)

\* C7 (as claimed): the tree holds one node per key and per index of the
\* value, in depth-first declaration order; the path parser maps each node's
\* path to the keys and indices that lead from the root to it; and no two
\* nodes carry the same path.
C7_TreePathsNavigate ==
    TreeIsFresh =>
        LET navs == NavPaths(Loads(Buffer).v, <<>>, 1)
        IN  /\ Len(tree) = Len(navs) + 1
            /\ \A i \in 1..Len(navs) :
                  /\ ~ParsePath(tree[i + 1].path).err
                  /\ ParsePath(tree[i + 1].path).parts = navs[i]
            /\ \A i, j \in 2..Len(tree) : i # j => tree[i].path # tree[j].path

\* The path ends in an array index: [digits].
EndsWithIndex(path) ==
    LET c == Chars(path)
    IN  /\ Len(c) >= 3 /\ c[Len(c)] = "]"
        /\ \E k \in 1..(Len(c) - 2) :
              /\ c[k] = "["
              /\ \A j \in (k + 1)..(Len(c) - 1) : c[j] \in Digits

\* C8: for a path whose last segment is an array index the resolver finds
\* nothing and nothing is highlighted, whatever the text of the document.
C8_IndexPathNotLocated ==
    (probe.stage = "located" /\ EndsWithIndex(probe.path)) => probe.span = NoSpan

\* C8 witness: the node a[0] of a tree built from an earlier text was clicked
\* while the document holds a key named 0 under a.
C8_IndexNodeClicked ==
    /\ probe.stage = "located" /\ probe.path = "a[0]"
    /\ Buffer = "{\"a\":{\"0\":1}}"
    /\ probe.span = NoSpan

\* C21: the resolver returns a span only when the depth-first traversal of
\* the parsed text reaches a node whose accumulated path equals the parsed
\* target path; otherwise nothing is found and nothing is highlighted.
C21_SpanOnlyForReachedPath ==
    (probe.stage = "located" /\ probe.span.kind = "span") =>
        /\ Loads(Buffer).ok
        /\ ~ParsePath(probe.path).err
        /\ \E i \in 1..Len(NavPaths(Loads(Buffer).v, <<>>, 1)) :
              NavPaths(Loads(Buffer).v, <<>>, 1)[i] = ParsePath(probe.path).parts

=============================================================================
